---------------------------- MODULE Spec2Model ----------------------------
(***************************************************************************)
(* Model of src/src/main.rs: a sequential HTTP range downloader.           *)
(*                                                                         *)
(*   main             lines 6-49    orchestrator                           *)
(*   get_total_size   lines 52-87   size discovery                         *)
(*   download_chunk   lines 90-122  ranged chunk fetch                     *)
(*   extract_body     lines 125-138 header/body splitter                   *)
(*                                                                         *)
(* Bytes are their integer codes.  The peer is the environment: what it    *)
(* sends on a connection is chosen freely from small sets of streams.      *)
(* Two quantities are scaled so that the state space is finite: the        *)
(* machine word (UsizeBits instead of 64) and the request window           *)
(* (chunk_size instead of 64 * 1024).  All arithmetic keeps the scaled     *)
(* word width.                                                             *)
(***************************************************************************)
EXTENDS Integers, Sequences, FiniteSets, TLC

VARIABLES
    pc,             \* control position of the single thread
    error,          \* the error main returned with ("none" while running)
    total_size,     \* main: total_size (line 11)
    all_data,       \* main: all_data (line 14)
    position,       \* main: position (line 16)
    chunk,          \* main: chunk (line 20)
    file_exists,    \* whether downloaded_data.bin exists on disk
    file,           \* contents of downloaded_data.bin on disk
    file_open,      \* main holds the handle returned by File::create
    start_position, \* download_chunk: start_position
    end_position,   \* download_chunk: end_position
    peer,           \* bytes the peer has still to send on the open connection
    response,       \* get_total_size / download_chunk: response
    warned,         \* the size-mismatch warning of lines 35-38 was printed
    digest_input,   \* bytes given to hasher.update (line 42)
    hash_reported,  \* line 45 printed the digest
    disc_requests,  \* history: discovery requests sent (line 57)
    hdr_has_length, \* history: the header section received in discovery
                    \*          holds a content-length line
    io_errors,      \* history: kinds of the Err results I/O calls returned
    calls,          \* history: start offsets of the download_chunk calls
    requests,       \* history: <<start, end>> of each range request sent
    results,        \* history: bodies returned by download_chunk, in order
    last_raw        \* history: the response the last returned body was cut from

vars == << pc, error, total_size, all_data, position, chunk, file_exists,
           file, file_open, start_position, end_position, peer, response,
           warned, digest_input, hash_reported, disc_requests,
           hdr_has_length, io_errors, calls, requests, results, last_raw >>

---------------------------------------------------------------------------
(* Bounds of the model *)

\* longest body a chunk response carries
MaxBody == 3
\* most download_chunk calls in one run (the retry loop itself is unbounded)
MaxFetches == 5

(* Scaled program quantities *)

\* width of usize
UsizeBits == 6
\* download_chunk: chunk_size (64 * 1024 in the source)
chunk_size == 2
\* get_total_size: buffer = [0; 1024]
DiscBufSize == 1024

USIZE_MAX == 2^UsizeBits - 1
ISIZE_MAX == 2^(UsizeBits - 1) - 1

---------------------------------------------------------------------------
(* Sequences of bytes *)

Min(a, b) == IF a < b THEN a ELSE b

Take(s, n) == SubSeq(s, 1, n)
Drop(s, n) == SubSeq(s, n + 1, Len(s))

RECURSIVE Flatten(_)
Flatten(ss) == IF ss = << >> THEN << >> ELSE Head(ss) \o Flatten(Tail(ss))

\* b"\r\n\r\n"
SEPARATOR == << 13, 10, 13, 10 >>

\* response.windows(4).any(|w| w == b"\r\n\r\n")
HasSeparator(r) ==
    \E i \in 1..(Len(r) - 3) : SubSeq(r, i, i + 3) = SEPARATOR

\* extract_body: scan i = 0, 1, ... while i + 3 < len; first match wins
RECURSIVE ScanBody(_, _)
ScanBody(r, i) ==
    IF i + 3 < Len(r)
    THEN IF SubSeq(r, i + 1, i + 4) = SEPARATOR
         THEN SubSeq(r, i + 5, Len(r))
         ELSE ScanBody(r, i + 1)
    ELSE << >>

\* variant of extract_body: the body is cut after the last separator
RECURSIVE ScanBodyLast(_, _)
ScanBodyLast(r, i) ==
    IF i < 0 THEN << >>
    ELSE IF i + 3 < Len(r) /\ SubSeq(r, i + 1, i + 4) = SEPARATOR
         THEN SubSeq(r, i + 5, Len(r))
         ELSE ScanBodyLast(r, i - 1)

extract_body_AfterLast(r) == ScanBodyLast(r, Len(r) - 4)

extract_body(r) == ScanBody(r, 0)

---------------------------------------------------------------------------
(* Header parsing of get_total_size, lines 79-84 *)

\* "content-length:"
LENGTH_PREFIX ==
    << 99, 111, 110, 116, 101, 110, 116, 45, 108, 101, 110, 103, 116, 104, 58 >>

\* char::is_whitespace on the ASCII range: space, \t, \n, \v, \f, \r
IsWhitespace(b) == b \in {32, 9, 10, 11, 12, 13}

IsDigit(b) == b \in 48..57

\* str::to_lowercase on ASCII text
ToLower(s) == [i \in 1..Len(s) |-> IF s[i] \in 65..90 THEN s[i] + 32 ELSE s[i]]

StartsWith(s, p) == Len(s) >= Len(p) /\ SubSeq(s, 1, Len(p)) = p

\* index of the first b in s, 0 when there is none
RECURSIVE IndexFrom(_, _, _)
IndexFrom(s, b, i) ==
    IF i > Len(s) THEN 0
    ELSE IF s[i] = b THEN i ELSE IndexFrom(s, b, i + 1)

IndexOf(s, b) == IndexFrom(s, b, 1)

\* str::lines: split after each \n; drop that \n and one \r before it; a
\* last line without \n is kept as it is; no line follows a final \n
RECURSIVE Lines(_)
Lines(s) ==
    IF s = << >> THEN << >>
    ELSE LET i == IndexOf(s, 10) IN
         IF i = 0 THEN << s >>
         ELSE LET l == SubSeq(s, 1, i - 1)
                  line == IF l # << >> /\ l[Len(l)] = 13
                          THEN SubSeq(l, 1, Len(l) - 1) ELSE l
              IN << line >> \o Lines(Drop(s, i))

\* line.split(':').nth(1) of a line that holds a ':'
SplitNth1(line) ==
    LET rest == Drop(line, IndexOf(line, 58))
        j == IndexOf(rest, 58)
    IN IF j = 0 THEN rest ELSE SubSeq(rest, 1, j - 1)

RECURSIVE TrimStart(_)
TrimStart(s) ==
    IF s # << >> /\ IsWhitespace(Head(s)) THEN TrimStart(Tail(s)) ELSE s

RECURSIVE TrimEnd(_)
TrimEnd(s) ==
    IF s # << >> /\ IsWhitespace(s[Len(s)])
    THEN TrimEnd(SubSeq(s, 1, Len(s) - 1)) ELSE s

\* str::trim
Trim(s) == TrimEnd(TrimStart(s))

\* digits of s folded left to right; -1 once the value leaves usize
RECURSIVE ParseDigits(_, _)
ParseDigits(s, acc) ==
    IF s = << >> THEN acc
    ELSE IF ~IsDigit(Head(s)) THEN -1
    ELSE LET v == acc * 10 + (Head(s) - 48) IN
         IF v > USIZE_MAX THEN -1 ELSE ParseDigits(Tail(s), v)

\* str::parse::<usize>().ok(): an optional '+', then one or more digits;
\* -1 stands for None
ParseUsize(s) ==
    LET d == IF s # << >> /\ Head(s) = 43 THEN Tail(s) ELSE s
    IN IF d = << >> THEN -1 ELSE ParseDigits(d, 0)

IsLengthLine(line) == StartsWith(ToLower(line), LENGTH_PREFIX)

\* headers.lines().find(|line| line.to_lowercase().starts_with(..)):
\* index of the first matching line, 0 when there is none
FirstLengthLine(ls) ==
    IF \E i \in 1..Len(ls) : IsLengthLine(ls[i])
    THEN CHOOSE i \in 1..Len(ls) :
            /\ IsLengthLine(ls[i])
            /\ \A j \in 1..(i - 1) : ~IsLengthLine(ls[j])
    ELSE 0

\* lines 79-84: the parsed length, -1 for the "No Content-Length header" error
content_length(r) ==
    LET ls == Lines(r)
        k == FirstLengthLine(ls)
    IN IF k = 0 THEN -1 ELSE ParseUsize(Trim(SplitNth1(ls[k])))

\* the bytes of r before the first separator (all of r when it has none)
RECURSIVE HeaderScan(_, _)
HeaderScan(r, i) ==
    IF i + 3 < Len(r)
    THEN IF SubSeq(r, i + 1, i + 4) = SEPARATOR
         THEN SubSeq(r, 1, i)
         ELSE HeaderScan(r, i + 1)
    ELSE r

HeaderSection(r) == HeaderScan(r, 0)

\* the header section of r holds a content-length line
HeadersHaveLength(r) ==
    \E i \in 1..Len(Lines(HeaderSection(r))) :
        IsLengthLine(Lines(HeaderSection(r))[i])

---------------------------------------------------------------------------
(* What the peer may send *)

DataBytes == {97, 98}

\* all sequences over S of length at most n
RECURSIVE SeqsUpTo(_, _)
SeqsUpTo(S, n) ==
    IF n = 0 THEN {<< >>}
    ELSE LET shorter == SeqsUpTo(S, n - 1) IN
         shorter \cup {<< b >> \o s : b \in S, s \in {t \in shorter : Len(t) = n - 1}}

Bodies == SeqsUpTo(DataBytes, MaxBody)

CRLF == << 13, 10 >>

\* "HTTP/1.1 200 OK"
StatusLine == << 72, 84, 84, 80, 47, 49, 46, 49, 32, 50, 48, 48, 32, 79, 75 >>

\* "Content-Length:"
LengthName ==
    << 67, 111, 110, 116, 101, 110, 116, 45, 76, 101, 110, 103, 116, 104, 58 >>

\* "X-" in front of the field name: no line that starts with it
OtherName == << 88, 45 >> \o LengthName

\* field values: " 0" " 1" " 2" " 3" "+2" " 40" "99" "x" "" " 1:5"
GoodValues == { << 32, 48 >>, << 32, 49 >>, << 32, 50 >>, << 32, 51 >>,
                << 43, 50 >> }
HugeValues == { << 32, 52, 48 >> }
BadValues  == { << 57, 57 >>, << 120 >>, << >>, << 45, 49 >> }

Field(name, value) == name \o value \o CRLF

HeaderBlocks ==
       {<< >>}
  \cup {Field(LengthName, v) : v \in GoodValues \cup HugeValues \cup BadValues}
  \cup {Field(LENGTH_PREFIX, << 32, 50 >>),
        Field(LengthName, << 32, 49, 58, 53 >>),
        Field(OtherName, << 32, 51 >>),
        Field(LengthName, << 120 >>) \o Field(LengthName, << 32, 50 >>),
        Field(LengthName, << 32, 49 >>) \o Field(LengthName, << 32, 51 >>)}

\* bytes after the separator on the discovery connection
DiscTails == {<< >>, << 97, 98 >>, Field(LengthName, << 32, 49 >>)}

DiscStreams ==
       {<< >>}
  \cup {StatusLine \o CRLF \o h \o CRLF \o t : h \in HeaderBlocks, t \in DiscTails}
  \cup {StatusLine \o CRLF \o Field(LengthName, << 32, 50 >>),
        StatusLine \o << 10 >> \o LengthName \o << 32, 51, 10, 10 >>}

\* "HTTP/1.1 206"
ChunkStatus == << 72, 84, 84, 80, 47, 49, 46, 49, 32, 50, 48, 54 >>

ChunkStreams ==
       {<< >>}
  \cup {ChunkStatus \o SEPARATOR \o b : b \in Bodies}
  \cup {ChunkStatus \o CRLF \o b : b \in {<< >>, << 97 >>}}
  \cup {<< 13, 10, 13 >>}

---------------------------------------------------------------------------
(* The program *)

history == << disc_requests, hdr_has_length, io_errors, calls, requests,
             results, last_raw >>
report  == << warned, digest_input, hash_reported >>
disk    == << file_exists, file, file_open >>
session == << total_size, all_data, position, chunk >>
fetcher == << start_position, end_position >>
wire    == << peer, response >>

\* contents of a pre-existing downloaded_data.bin
OldFile == << 111, 108, 100 >>

Init ==
    /\ pc = "main"
    /\ error = "none"
    /\ total_size = 0
    /\ all_data = << >>
    /\ position = 0
    /\ chunk = << >>
    /\ \/ file_exists = FALSE /\ file = << >>
       \/ file_exists = TRUE /\ file = OldFile
    /\ file_open = FALSE
    /\ start_position = 0
    /\ end_position = 0
    /\ peer = << >>
    /\ response = << >>
    /\ warned = FALSE
    /\ digest_input = << >>
    /\ hash_reported = FALSE
    /\ disc_requests = 0
    /\ hdr_has_length = FALSE
    /\ io_errors = << >>
    /\ calls = << >>
    /\ requests = << >>
    /\ results = << >>
    /\ last_raw = << >>

\* `?` on an Err: main returns it; locals are dropped, which closes the
\* connection and the file handle
Propagate(kind) ==
    /\ pc' = "Failed"
    /\ error' = kind
    /\ file_open' = FALSE
    /\ peer' = << >>
    /\ response' = << >>
    /\ io_errors' = Append(io_errors, kind)
    /\ UNCHANGED << file_exists, file, session, fetcher, report,
                    disc_requests, hdr_has_length, calls, requests, results,
                    last_raw >>

\* a panic unwinds main
Panic(kind) ==
    /\ pc' = "Panicked"
    /\ error' = kind
    /\ file_open' = FALSE
    /\ peer' = << >>
    /\ response' = << >>
    /\ UNCHANGED << file_exists, file, session, fetcher, report, history >>

\* line 11: main calls get_total_size
\* variant of MainStart: the output file is created before discovery
MainStart_CreatesFirst ==
    /\ pc = "main"
    /\ pc' = "gts_connect"
    /\ file_exists' = TRUE
    /\ file' = << >>
    /\ file_open' = TRUE
    /\ UNCHANGED << error, session, fetcher, wire, report, history >>

MainStart ==
    /\ pc = "main"
    /\ pc' = "gts_connect"
    /\ UNCHANGED << error, session, disk, fetcher, wire, report, history >>

\* line 56: TcpStream::connect(host)?
GtsConnect ==
    /\ pc = "gts_connect"
    /\ \/ Propagate("connect")
       \/ /\ pc' = "gts_send"
          /\ UNCHANGED << error, session, disk, fetcher, wire, report, history >>

\* line 57: conn.write_all(request)?; the peer then chooses what it sends
GtsSend ==
    /\ pc = "gts_send"
    /\ \/ Propagate("send")
       \/ /\ pc' = "gts_read"
          /\ disc_requests' = disc_requests + 1
          /\ peer' \in DiscStreams
          /\ response' = << >>
          /\ UNCHANGED << error, session, disk, fetcher, report,
                          hdr_has_length, io_errors, calls, requests, results,
                    last_raw >>

\* lines 64-76: one conn.read(&mut buffer) of the loop
GtsRead ==
    /\ pc = "gts_read"
    /\ \/ Propagate("read")
       \/ /\ peer = << >>
          /\ pc' = "gts_parse"
          /\ UNCHANGED << error, session, disk, fetcher, wire, report, history >>
       \/ \E n \in 1..Min(DiscBufSize, Len(peer)) :
            /\ response' = response \o Take(peer, n)
            /\ peer' = Drop(peer, n)
            /\ pc' = IF HasSeparator(response') THEN "gts_parse" ELSE "gts_read"
            /\ UNCHANGED << error, session, disk, fetcher, report, history >>

\* lines 79-86: parse the headers; return the length or the error
GtsParse ==
    /\ pc = "gts_parse"
    /\ hdr_has_length' = HeadersHaveLength(response)
    /\ peer' = << >>
    /\ response' = << >>
    /\ IF content_length(response) = -1
       THEN /\ pc' = "Failed"
            /\ error' = "missing_length"
            /\ UNCHANGED total_size
       ELSE /\ pc' = "main_alloc"
            /\ total_size' = content_length(response)
            /\ UNCHANGED error
    /\ UNCHANGED << all_data, position, chunk, disk, fetcher, report,
                    disc_requests, io_errors, calls, requests, results,
                    last_raw >>

\* line 14: Vec::with_capacity(total_size) panics beyond isize::MAX bytes
MainAlloc ==
    /\ pc = "main_alloc"
    /\ IF total_size > ISIZE_MAX
       THEN Panic("capacity overflow")
       ELSE /\ pc' = "main_create"
            /\ all_data' = << >>
            /\ UNCHANGED << error, total_size, position, chunk, disk, fetcher,
                            wire, report, history >>

\* lines 15-16: File::create(output_file)? truncates or creates; position = 0
MainCreate ==
    /\ pc = "main_create"
    /\ \/ Propagate("create")
       \/ /\ pc' = "main_loop"
          /\ file_exists' = TRUE
          /\ file' = << >>
          /\ file_open' = TRUE
          /\ position' = 0
          /\ UNCHANGED << error, total_size, all_data, chunk, fetcher, wire,
                          report, history >>

\* variant of LoopEnter: the condition written position <= total_size
LoopEnter_OffByOne ==
    /\ pc = "main_loop"
    /\ position <= total_size
    /\ Len(calls) < MaxFetches
    /\ pc' = "dc_range"
    /\ start_position' = position
    /\ calls' = Append(calls, position)
    /\ UNCHANGED << error, session, disk, end_position, wire, report,
                    disc_requests, hdr_has_length, io_errors, requests,
                    results,
                    last_raw >>

\* variant of LoopEnter: the offset advances by whole windows
LoopEnter_WindowStride ==
    /\ pc = "main_loop"
    /\ position < total_size
    /\ Len(calls) < MaxFetches
    /\ pc' = "dc_range"
    /\ start_position' = chunk_size * Len(SelectSeq(results, LAMBDA b : b # << >>))
    /\ calls' = Append(calls, start_position')
    /\ UNCHANGED << error, session, disk, end_position, wire, report,
                    disc_requests, hdr_has_length, io_errors, requests,
                    results,
                    last_raw >>

\* line 19, condition true: call download_chunk(host, position)
LoopEnter ==
    /\ pc = "main_loop"
    /\ position < total_size
    /\ Len(calls) < MaxFetches
    /\ pc' = "dc_range"
    /\ start_position' = position
    /\ calls' = Append(calls, position)
    /\ UNCHANGED << error, session, disk, end_position, wire, report,
                    disc_requests, hdr_has_length, io_errors, requests,
                    results,
                    last_raw >>

\* variant of LoopExit: the loop stops a window short of total_size
LoopExit_Early ==
    /\ pc = "main_loop"
    /\ ~(position + chunk_size < total_size)
    /\ pc' = "main_verify"
    /\ UNCHANGED << error, session, disk, fetcher, wire, report, history >>

\* variant of LoopExit: the loop may be left whatever position is
LoopExit_Unconditional ==
    /\ pc = "main_loop"
    /\ pc' = "main_verify"
    /\ UNCHANGED << error, session, disk, fetcher, wire, report, history >>

\* line 19, condition false: leave the loop
LoopExit ==
    /\ pc = "main_loop"
    /\ ~(position < total_size)
    /\ pc' = "main_verify"
    /\ UNCHANGED << error, session, disk, fetcher, wire, report, history >>

\* line 92: start_position + chunk_size - 1 in usize.  An overflowing
\* addition or subtraction panics when overflow checks are compiled in and
\* wraps when they are not.
DcRange ==
    /\ pc = "dc_range"
    /\ LET sum == start_position + chunk_size
           wrapped == sum % (USIZE_MAX + 1)
           overflow == sum > USIZE_MAX \/ wrapped = 0
       IN \/ /\ overflow
             /\ Panic("arithmetic overflow")
          \/ /\ pc' = "dc_connect"
             /\ end_position' = (wrapped - 1) % (USIZE_MAX + 1)
             /\ UNCHANGED << error, session, disk, start_position, wire,
                             report, history >>

\* line 100: TcpStream::connect(host)?
DcConnect ==
    /\ pc = "dc_connect"
    /\ \/ Propagate("connect")
       \/ /\ pc' = "dc_send"
          /\ UNCHANGED << error, session, disk, fetcher, wire, report, history >>

\* lines 94-101: conn.write_all(request)? with Range: bytes=start-end
DcSend ==
    /\ pc = "dc_send"
    /\ \/ Propagate("send")
       \/ /\ pc' = "dc_read"
          /\ requests' = Append(requests, << start_position, end_position >>)
          /\ peer' \in ChunkStreams
          /\ response' = << >>
          /\ UNCHANGED << error, session, disk, fetcher, report,
                          disc_requests, hdr_has_length, io_errors, calls,
                          results,
                    last_raw >>

\* variant of DcRead: a read error ends the loop like end of stream
DcRead_ErrAsEof ==
    /\ pc = "dc_read"
    /\ \/ \E n \in 0..Len(peer) :
            /\ pc' = "dc_return"
            /\ response' = response \o Take(peer, n)
            /\ peer' = << >>
            /\ io_errors' = Append(io_errors, "read")
            /\ UNCHANGED << error, session, disk, fetcher, report,
                            disc_requests, hdr_has_length, calls, requests,
                            results,
                    last_raw >>
       \/ /\ pc' = "dc_return"
          /\ response' = response \o peer
          /\ peer' = << >>
          /\ UNCHANGED << error, session, disk, fetcher, report, history >>

\* lines 107-113: read until end of stream
DcRead ==
    /\ pc = "dc_read"
    /\ \/ Propagate("read")
       \/ /\ pc' = "dc_return"
          /\ response' = response \o peer
          /\ peer' = << >>
          /\ UNCHANGED << error, session, disk, fetcher, report, history >>

\* variant of DcReturn: a response without separator is returned whole
DcReturn_WholeWithoutSeparator ==
    /\ pc = "dc_return"
    /\ pc' = "main_check"
    /\ chunk' = IF HasSeparator(response) THEN extract_body(response)
                ELSE response
    /\ results' = Append(results, chunk')
    /\ last_raw' = response
    /\ response' = << >>
    /\ UNCHANGED << error, total_size, all_data, position, disk, fetcher,
                    peer, report, disc_requests, hdr_has_length, io_errors,
                    calls, requests >>

\* lines 116-121: Ok(Vec::new()) for an empty response, else the body
DcReturn ==
    /\ pc = "dc_return"
    /\ pc' = "main_check"
    /\ chunk' = IF response = << >> THEN << >> ELSE extract_body(response)
    /\ results' = Append(results, chunk')
    /\ last_raw' = response
    /\ response' = << >>
    /\ UNCHANGED << error, total_size, all_data, position, disk, fetcher,
                    peer, report, disc_requests, hdr_has_length, io_errors,
                    calls, requests >>

\* variant of MainCheck: a second empty chunk in a row fails the run
MainCheck_RetryBound ==
    /\ pc = "main_check"
    /\ IF chunk = << >> /\ Len(results) >= 2
                       /\ results[Len(results) - 1] = << >>
       THEN /\ pc' = "Failed"
            /\ error' = "retries"
            /\ file_open' = FALSE
            /\ UNCHANGED << file_exists, file >>
       ELSE /\ pc' = IF chunk = << >> THEN "main_loop" ELSE "main_write"
            /\ UNCHANGED << error, disk >>
    /\ UNCHANGED << session, fetcher, wire, report, history >>

\* variant of MainCheck: an empty chunk starts the run over at discovery
MainCheck_Rediscover ==
    /\ pc = "main_check"
    /\ pc' = IF chunk = << >> THEN "gts_connect" ELSE "main_write"
    /\ UNCHANGED << error, session, disk, fetcher, wire, report, history >>

\* variant of MainCheck: an empty chunk ends the loop (break for continue)
MainCheck_BreakOnEmpty ==
    /\ pc = "main_check"
    /\ pc' = IF chunk = << >> THEN "main_verify" ELSE "main_write"
    /\ UNCHANGED << error, session, disk, fetcher, wire, report, history >>

\* lines 22-25: an empty chunk goes back to the loop condition
MainCheck ==
    /\ pc = "main_check"
    /\ pc' = IF chunk = << >> THEN "main_loop" ELSE "main_write"
    /\ UNCHANGED << error, session, disk, fetcher, wire, report, history >>

\* variant of MainWrite: the chunk lands at the front of the file
MainWrite_Prepend ==
    /\ pc = "main_write"
    /\ pc' = "main_extend"
    /\ file' = chunk \o file
    /\ UNCHANGED << error, session, file_exists, file_open, fetcher,
                    wire, report, history >>

\* variant of MainWrite: each write replaces the contents of the file
MainWrite_Truncating ==
    /\ pc = "main_write"
    /\ pc' = "main_extend"
    /\ file' = chunk
    /\ UNCHANGED << error, session, file_exists, file_open, fetcher,
                    wire, report, history >>

\* variant of MainWrite: the result of write_all is ignored
MainWrite_IgnoreError ==
    /\ pc = "main_write"
    /\ pc' = "main_extend"
    /\ \/ \E k \in 0..(Len(chunk) - 1) :
            /\ file' = file \o Take(chunk, k)
            /\ io_errors' = Append(io_errors, "write")
            /\ UNCHANGED << disc_requests, hdr_has_length, calls, requests,
                            results, last_raw >>
       \/ /\ file' = file \o chunk
          /\ UNCHANGED history
    /\ UNCHANGED << error, session, file_exists, file_open, fetcher, wire,
                    report >>

\* line 27: file.write_all(&chunk)?; a failed write leaves a proper prefix
MainWrite ==
    /\ pc = "main_write"
    /\ \/ \E k \in 0..(Len(chunk) - 1) :
            /\ pc' = "Failed"
            /\ error' = "write"
            /\ file' = file \o Take(chunk, k)
            /\ file_open' = FALSE
            /\ io_errors' = Append(io_errors, "write")
            /\ UNCHANGED << file_exists, session, fetcher, wire, report,
                            disc_requests, hdr_has_length, calls, requests,
                            results,
                    last_raw >>
       \/ /\ pc' = "main_extend"
          /\ file' = file \o chunk
          /\ UNCHANGED << error, session, file_exists, file_open, fetcher,
                          wire, report, history >>

\* variant of MainExtend: the buffer is replaced, not extended
MainExtend_Overwrite ==
    /\ pc = "main_extend"
    /\ pc' = "main_advance"
    /\ all_data' = chunk
    /\ UNCHANGED << error, total_size, position, chunk, disk, fetcher, wire,
                    report, history >>

\* line 28: all_data.extend_from_slice(&chunk)
MainExtend ==
    /\ pc = "main_extend"
    /\ pc' = "main_advance"
    /\ all_data' = all_data \o chunk
    /\ UNCHANGED << error, total_size, position, chunk, disk, fetcher, wire,
                    report, history >>

\* variant of MainAdvance: position counts chunks, not bytes
MainAdvance_CountsChunks ==
    /\ pc = "main_advance"
    /\ pc' = "main_loop"
    /\ position' = position + 1
    /\ chunk' = << >>
    /\ UNCHANGED << error, total_size, all_data, disk, fetcher, wire, report,
                    history >>

\* lines 29-31: position += chunk.len(); end of the loop body
MainAdvance ==
    /\ pc = "main_advance"
    /\ pc' = "main_loop"
    /\ position' = position + Len(chunk)
    /\ chunk' = << >>
    /\ UNCHANGED << error, total_size, all_data, disk, fetcher, wire, report,
                    history >>

\* variant of MainVerify: only a short download is warned about
MainVerify_ShortOnly ==
    /\ pc = "main_verify"
    /\ pc' = "main_hash"
    /\ warned' = (Len(all_data) < total_size)
    /\ UNCHANGED << error, session, disk, fetcher, wire, digest_input,
                    hash_reported, history >>

\* lines 35-38: warn when all_data.len() != total_size
MainVerify ==
    /\ pc = "main_verify"
    /\ pc' = "main_hash"
    /\ warned' = (Len(all_data) # total_size)
    /\ UNCHANGED << error, session, disk, fetcher, wire, digest_input,
                    hash_reported, history >>

\* lines 41-48: hash all_data, print the digest, return Ok(())
MainHash ==
    /\ pc = "main_hash"
    /\ pc' = "Done"
    /\ digest_input' = all_data
    /\ hash_reported' = TRUE
    /\ file_open' = FALSE
    /\ UNCHANGED << error, session, file_exists, file, fetcher, wire, warned,
                    history >>

Next ==
    \/ MainStart \/ GtsConnect \/ GtsSend \/ GtsRead \/ GtsParse
    \/ MainAlloc \/ MainCreate \/ LoopEnter \/ LoopExit
    \/ DcRange \/ DcConnect \/ DcSend \/ DcRead \/ DcReturn
    \/ MainCheck \/ MainWrite \/ MainExtend \/ MainAdvance
    \/ MainVerify \/ MainHash

Spec == Init /\ [][Next]_vars

---------------------------------------------------------------------------
(* The program with an unbounded retry loop.  The histories of the chunk   *)
(* calls are not kept, so that a run that retries for ever stays within     *)
(* finitely many states; everything else is as in Spec.                     *)

\* LoopEnter without the history of calls and without the bound on them
LoopEnterLive ==
    /\ pc = "main_loop"
    /\ position < total_size
    /\ pc' = "dc_range"
    /\ start_position' = position
    /\ UNCHANGED << error, session, disk, end_position, wire, report,
                    history >>

\* DcSend without the history of requests
DcSendLive ==
    /\ pc = "dc_send"
    /\ \/ Propagate("send")
       \/ /\ pc' = "dc_read"
          /\ peer' \in ChunkStreams
          /\ response' = << >>
          /\ UNCHANGED << error, session, disk, fetcher, report, history >>

\* DcReturn without the history of results
DcReturnLive ==
    /\ pc = "dc_return"
    /\ pc' = "main_check"
    /\ chunk' = IF response = << >> THEN << >> ELSE extract_body(response)
    /\ response' = << >>
    /\ UNCHANGED << error, total_size, all_data, position, disk, fetcher,
                    peer, report, history >>

NextLive ==
    \/ MainStart \/ GtsConnect \/ GtsSend \/ GtsRead \/ GtsParse
    \/ MainAlloc \/ MainCreate \/ LoopEnterLive \/ LoopExit
    \/ DcRange \/ DcConnect \/ DcSendLive \/ DcRead \/ DcReturnLive
    \/ MainCheck \/ MainWrite \/ MainExtend \/ MainAdvance
    \/ MainVerify \/ MainHash

\* the peer answers a range request with a response that has a body
NonEmptyFetch == DcSendLive /\ extract_body(peer') # << >>

\* the thread keeps running: every blocking call returns and every
\* statement reached is executed; nothing is assumed of the peer.  GtsParse
\* can be taken in every state at gts_parse and is the only step from
\* there, so its weak fairness is that gts_parse is left.
Running ==
    /\ WF_vars(pc # "gts_parse" /\ NextLive)
    /\ []<>(pc # "gts_parse")

SpecLive == Init /\ [][NextLive]_vars /\ Running

---------------------------------------------------------------------------
(* download_chunk taken alone, lines 90-101: any usize as start_position *)

InitRange ==
    /\ pc = "dc_range"
    /\ error = "none"
    /\ total_size = 0
    /\ all_data = << >>
    /\ position = 0
    /\ chunk = << >>
    /\ file_exists = FALSE
    /\ file = << >>
    /\ file_open = FALSE
    /\ start_position \in 0..USIZE_MAX
    /\ end_position = 0
    /\ peer = << >>
    /\ response = << >>
    /\ warned = FALSE
    /\ digest_input = << >>
    /\ hash_reported = FALSE
    /\ disc_requests = 0
    /\ hdr_has_length = FALSE
    /\ io_errors = << >>
    /\ calls = << start_position >>
    /\ requests = << >>
    /\ results = << >>
    /\ last_raw = << >>

NextRange == DcRange \/ DcConnect \/ DcSend

SpecRange == InitRange /\ [][NextRange]_vars

---------------------------------------------------------------------------
(* extract_body taken alone, lines 125-138: any short sequence of bytes *)

\* longest input given to extract_body
MaxSplitLen == 6

SplitBytes == {13, 10, 97}

InitSplit ==
    /\ pc = "eb_call"
    /\ error = "none"
    /\ total_size = 0
    /\ all_data = << >>
    /\ position = 0
    /\ chunk = << >>
    /\ file_exists = FALSE
    /\ file = << >>
    /\ file_open = FALSE
    /\ start_position = 0
    /\ end_position = 0
    /\ peer = << >>
    /\ response \in SeqsUpTo(SplitBytes, MaxSplitLen)
    /\ warned = FALSE
    /\ digest_input = << >>
    /\ hash_reported = FALSE
    /\ disc_requests = 0
    /\ hdr_has_length = FALSE
    /\ io_errors = << >>
    /\ calls = << >>
    /\ requests = << >>
    /\ results = << >>
    /\ last_raw = << >>

\* line 121: extract_body(&response)
EbCall ==
    /\ pc = "eb_call"
    /\ pc' = "eb_return"
    /\ chunk' = extract_body(response)
    /\ UNCHANGED << error, total_size, all_data, position, disk, fetcher,
                    wire, report, history >>

NextSplit == EbCall

SpecSplit == InitSplit /\ [][NextSplit]_vars

---------------------------------------------------------------------------
(* Properties *)

NonEmpty(b) == b # << >>

\* the bodies main accepted: the non-empty results, in order
Accepted == SelectSeq(results, NonEmpty)

Last(s) == s[Len(s)]

AfterLoop == pc \in {"main_verify", "main_hash", "Done"}

InLoopBody ==
    pc \in {"dc_range", "dc_connect", "dc_send", "dc_read", "dc_return",
            "main_check", "main_write", "main_extend", "main_advance"}

TransportKinds == {"connect", "send", "read"}

\* C1: when the run completes, the output file holds exactly the
\* concatenation of the accepted (non-empty) chunk bodies, in the order
\* they were accepted.
C1_FileIsConcatenation ==
    pc = "Done" => file_exists /\ file = Flatten(Accepted)

\* C1 witness: a completed run that accepted two different bodies with an
\* empty result between them.
C1_Witness ==
    /\ pc = "Done"
    /\ Len(results) = 3
    /\ results[1] # << >> /\ results[2] = << >> /\ results[3] # << >>
    /\ results[1] # results[3]
    /\ file = results[1] \o results[3]

\* C2: at every evaluation of the loop condition and at loop exit the
\* accumulated length equals position; and position <= total_size at every
\* fetch and in every state up to the append of the chunk fetched there.
C2_LengthIsPosition ==
    /\ pc \in {"main_loop", "main_verify"} => Len(all_data) = position
    /\ pc \in {"dc_range", "dc_connect", "dc_send", "dc_read", "dc_return",
               "main_check", "main_write"}
          => Len(all_data) = position /\ position <= total_size
    /\ \A i \in 1..Len(calls) : calls[i] <= total_size

\* C2 witness: the loop condition is evaluated after two chunks were
\* appended, the second one overshooting total_size.
C2_Witness ==
    /\ pc = "main_loop"
    /\ Len(Accepted) = 2
    /\ position = Len(Accepted[1]) + Len(Accepted[2])
    /\ position > total_size

\* C3: the calls at one offset are a run of empty results closed by at most
\* one non-empty result: k empty results at an offset are followed by call
\* k+1 at the same offset, an offset is left only after a non-empty result,
\* and no number of empty results makes the run fail.
C3_RetrySameOffset ==
    /\ \A i \in 1..Len(calls) : \A j \in 1..(i - 1) :
          calls[j] = calls[i] => results[j] = << >>
    /\ \A i \in 1..(Len(calls) - 1) :
          /\ results[i] = << >> => calls[i + 1] = calls[i]
          /\ results[i] # << >> => calls[i + 1] = calls[i] + Len(results[i])
    /\ pc = "Failed" => io_errors # << >> \/ error = "missing_length"
    /\ pc = "main_loop" /\ results # << >> /\ Last(results) = << >>
          => position = Last(calls) /\ position < total_size

\* C3 witness: three calls at offset 0, the first two empty (k = 2), after
\* which position has advanced.
C3_Witness ==
    /\ pc = "main_loop"
    /\ calls = << 0, 0, 0 >>
    /\ results[1] = << >> /\ results[2] = << >> /\ results[3] # << >>
    /\ position = Len(results[3])

\* C4 as stated: at loop exit total_size <= position <= total_size +
\* chunk_size - 1, whatever bodies the peer returns.
C4_OvershootBelowWindow ==
    AfterLoop => total_size <= position /\ position <= total_size + chunk_size - 1

\* C4 amended: at loop exit total_size <= position, and position exceeds
\* total_size by less than the length of the last accepted body (by nothing
\* when no body was accepted); so the overshoot stays below the window only
\* when the last body is no longer than the window.
C4_OvershootBelowLastBody ==
    AfterLoop =>
        /\ total_size <= position
        /\ Accepted = << >> => position = total_size
        /\ Accepted # << >> => position <= total_size + Len(Last(Accepted)) - 1
        /\ Accepted # << >> /\ Len(Last(Accepted)) <= chunk_size
              => position <= total_size + chunk_size - 1

\* C4 witness: the loop has exited with an overshoot of a whole window or
\* more, after a body longer than the window.
C4_Witness ==
    /\ AfterLoop
    /\ Accepted # << >>
    /\ Len(Last(Accepted)) > chunk_size
    /\ position >= total_size + chunk_size

\* the last accepted body is shorter than the part of the requested window
\* that lies inside total_size, and it leaves the accumulated bytes short
TruncatedShort ==
    /\ results # << >>
    /\ Last(results) # << >>
    /\ Len(Last(results)) < Min(chunk_size, total_size - Last(calls))
    /\ Len(all_data) < total_size

\* C5 as stated: when the peer truncates the final chunk so that fewer than
\* total_size bytes are accumulated, the loop condition lets the run leave
\* the loop (towards the mismatch warning and the digest).
C5_ShortRunLeavesLoop ==
    [][pc = "main_loop" /\ TruncatedShort => pc' = "main_verify"]_vars

\* C5 amended: the loop is never left with fewer than total_size bytes, so
\* a mismatch is always an overshoot; it is reported as a warning exactly
\* when the accumulated length differs from total_size, it is no failure,
\* and the completed run reports a digest over all the bytes collected.
C5_MismatchIsOvershootWarning ==
    /\ AfterLoop => Len(all_data) >= total_size /\ error = "none"
    /\ pc \in {"main_hash", "Done"} => (warned <=> Len(all_data) > total_size)
    /\ pc = "Done" => hash_reported /\ digest_input = all_data
    /\ pc = "main_loop" /\ TruncatedShort => ~ENABLED LoopExit

\* C5 witness: a completed run that printed the mismatch warning and still
\* reported the digest of the bytes collected.
C5_Witness ==
    /\ pc = "Done"
    /\ warned
    /\ hash_reported
    /\ Len(digest_input) > total_size

\* C6: on every run that reaches Done, the bytes given to the digest are
\* exactly the bytes in the output file, in the same order.
C6_DigestOverFileBytes ==
    pc = "Done" => hash_reported /\ file_exists /\ digest_input = file

\* C6 witness: Done after two accepted chunks, the digest fed with both.
C6_Witness ==
    /\ pc = "Done"
    /\ Len(Accepted) = 2
    /\ Accepted[1] # Accepted[2]
    /\ digest_input = Accepted[1] \o Accepted[2]

\* discovery returned Ok(0) and main is past line 11
DiscoveredZero ==
    /\ total_size = 0
    /\ \/ pc \in {"main_alloc", "main_create", "main_loop", "Done"}
       \/ AfterLoop
       \/ InLoopBody
       \/ pc = "Failed" /\ error \in {"create", "write"}

\* C7: when discovery returns 0 no chunk fetch is ever issued, the created
\* output file stays empty, and the digest is taken over no bytes.
C7_ZeroLength ==
    DiscoveredZero =>
        /\ ~InLoopBody
        /\ calls = << >> /\ requests = << >>
        /\ file_open => file_exists /\ file = << >>
        /\ AfterLoop => file_open \/ pc = "Done"
        /\ pc = "main_hash" => ~warned
        /\ pc = "Done" =>
              file_exists /\ file = << >> /\ digest_input = << >>
              /\ hash_reported

\* C7 witness: a completed run of a zero-length resource.
C7_Witness ==
    /\ pc = "Done"
    /\ total_size = 0
    /\ disc_requests = 1
    /\ hdr_has_length
    /\ file_exists /\ file = << >>

DiscoveryParsed ==
    \/ pc \in {"main_alloc", "main_create", "main_loop", "Done", "Panicked"}
    \/ AfterLoop
    \/ InLoopBody
    \/ pc = "Failed" /\ (error \in {"missing_length", "create", "write"}
                          \/ calls # << >>)

\* C8: when the header section received in discovery holds no
\* content-length line, the run fails with the missing-length error and no
\* chunk fetch is issued, whatever follows the separator.
C8_NoLengthFails ==
    DiscoveryParsed /\ ~hdr_has_length =>
        pc = "Failed" /\ error = "missing_length" /\ calls = << >>

\* C9: a transport failure aborts the run at once: the run is Failed with
\* that error, nothing further can happen, the failed fetch has no result
\* and no successor, no digest is reported, the file holds only the chunks
\* accepted before; and a call is repeated at its offset only after an
\* empty body.
C9_TransportFailureAborts ==
    /\ \A i \in 1..Len(io_errors) : io_errors[i] \in TransportKinds =>
          /\ pc = "Failed" /\ error = io_errors[i] /\ Len(io_errors) = 1
          /\ ~ENABLED Next
          /\ ~hash_reported /\ digest_input = << >>
          /\ ~file_open
          /\ calls = << >> => requests = << >> /\ disc_requests <= 1
                              /\ file \in {<< >>, OldFile}
          /\ calls # << >> => /\ Len(results) = Len(calls) - 1
                              /\ Len(requests) \in {Len(results), Len(calls)}
                              /\ file = Flatten(Accepted)
    /\ \A i \in 1..(Len(calls) - 1) :
          /\ i <= Len(results)
          /\ calls[i + 1] = calls[i] => results[i] = << >>

\* C9 witness: a read failure in the third chunk fetch, after an empty
\* result was retried and a body was written.
C9_Witness ==
    /\ pc = "Failed"
    /\ error = "read"
    /\ Len(calls) = 3
    /\ results[1] = << >> /\ results[2] # << >>
    /\ file = results[2]

FirstSeparator(r) ==
    CHOOSE i \in 1..(Len(r) - 3) :
        /\ SubSeq(r, i, i + 3) = SEPARATOR
        /\ \A j \in 1..(i - 1) : SubSeq(r, j, j + 3) # SEPARATOR

\* C11: extract_body returns exactly the bytes after the first separator
\* (none when the separator ends the input), and the empty sequence for an
\* input without separator, inputs shorter than 4 bytes included.
C11_SplitterExact ==
    pc = "eb_return" =>
        /\ HasSeparator(response) =>
              chunk = SubSeq(response, FirstSeparator(response) + 4,
                             Len(response))
        /\ ~HasSeparator(response) => chunk = << >>

\* C11 witness: an input with two separators, split after the first.
C11_Witness ==
    /\ pc = "eb_return"
    /\ response = << 13, 10, 13, 10, 13, 10 >>
    /\ chunk = << 13, 10 >>

RECURSIVE SumLen(_)
SumLen(ss) == IF ss = << >> THEN 0 ELSE Len(Head(ss)) + SumLen(Tail(ss))

\* C12: each chunk call and request starts at the total length of the
\* bodies accepted before it, which is the current position; so the
\* offsets never decrease and grow strictly after each accepted body.
C12_RequestStartsAtPosition ==
    /\ \A i \in 1..Len(calls) :
          /\ calls[i] = SumLen(SubSeq(results, 1, i - 1))
          /\ i <= Len(requests) => requests[i][1] = calls[i]
    /\ \A i \in 1..(Len(calls) - 1) :
          /\ calls[i] <= calls[i + 1]
          /\ results[i] # << >> => calls[i] < calls[i + 1]
    /\ InLoopBody /\ pc \notin {"main_advance"} =>
          start_position = position /\ Last(calls) = position

\* C12 witness: three requests, the second a retry of the first offset, the
\* third after a body of two bytes.
C12_Witness ==
    /\ Len(requests) = 3
    /\ requests[1][1] = 0 /\ requests[2][1] = 0 /\ requests[3][1] = 2
    /\ results[1] = << >> /\ Len(results[2]) = 2

\* the orchestrator state of the design that a control position belongs to;
\* allocation and File::create (lines 12-16) complete the step from
\* Discovering to Fetching, a panic counts as Failed
OrchState ==
    CASE pc = "main" -> "Init"
      [] pc \in {"gts_connect", "gts_send", "gts_read", "gts_parse",
                 "main_alloc", "main_create"} -> "Discovering"
      [] pc = "main_loop" \/ InLoopBody -> "Fetching"
      [] pc \in {"main_verify", "main_hash"} -> "Reporting"
      [] pc = "Done" -> "Done"
      [] OTHER -> "Failed"

OrchOrder ==
    { << "Init", "Discovering" >>, << "Discovering", "Fetching" >>,
      << "Fetching", "Reporting" >>, << "Reporting", "Done" >>,
      << "Discovering", "Failed" >>, << "Fetching", "Failed" >>,
      << "Reporting", "Failed" >> }

\* C13: every step stays in its orchestrator state or moves along
\* Init, Discovering, Fetching, Reporting, Done, or from Discovering,
\* Fetching or Reporting to Failed; no step leaves Done or Failed; so only
\* Fetching is revisited, and discovery has been requested exactly once
\* when Fetching, Reporting or Done is reached.
C13_StateOrder ==
    /\ [][/\ OrchState \notin {"Done", "Failed"}
          /\ \/ OrchState' = OrchState /\ OrchState # "Init"
             \/ << OrchState, OrchState' >> \in OrchOrder]_vars
    /\ [](OrchState \in {"Fetching", "Reporting", "Done"} => disc_requests = 1)
    /\ [](disc_requests <= 1)

\* C13 witness: Done after a fetch loop of three calls and one discovery.
C13_Witness ==
    /\ OrchState = "Done"
    /\ Len(calls) = 3
    /\ disc_requests = 1

\* a resource of n bytes: "abab..."
Resource(n) == [i \in 1..n |-> 97 + ((i - 1) % 2)]

\* the bytes p .. min(p + chunk_size - 1, total_size - 1) of the resource
HonestBody(p) ==
    SubSeq(Resource(total_size), p + 1, Min(p + chunk_size, total_size))

\* so far the peer answered every range request with exactly the bytes of
\* the resource that lie in the requested range
HonestPeer ==
    /\ total_size <= ISIZE_MAX
    /\ \A i \in 1..Len(results) :
          /\ requests[i] = << calls[i], calls[i] + chunk_size - 1 >>
          /\ results[i] = HonestBody(requests[i][1])

\* number of windows that cover n bytes
Windows(n) == (n + chunk_size - 1) \div chunk_size

\* C14: against a peer that serves a resource of total_size bytes and
\* answers each range with exactly the resource bytes in it, position
\* never passes total_size, the file is the resource up to position, one
\* call per window suffices, and once the loop is left position equals
\* total_size, no warning is printed and the file equals the resource.
C14_HonestPeerNoOvershoot ==
    HonestPeer /\ OrchState \in {"Fetching", "Reporting", "Done"} =>
        /\ position <= total_size
        /\ Len(calls) <= Windows(total_size)
        /\ pc = "main_loop" => file = SubSeq(Resource(total_size), 1, position)
        /\ AfterLoop =>
              /\ position = total_size
              /\ file = Resource(total_size)
              /\ all_data = file
        /\ pc \in {"main_hash", "Done"} => ~warned
        /\ pc = "Done" => digest_input = Resource(total_size)

\* C14 witness: a resource of three bytes fetched in two windows.
C14_Witness ==
    /\ HonestPeer
    /\ pc = "Done"
    /\ total_size = 3
    /\ results = << << 97, 98 >>, << 97 >> >>
    /\ file = << 97, 98, 97 >>
    /\ ~warned

\* r is empty, or has no separator, or its first separator ends it
NoBodyResponse(r) ==
    \/ r = << >>
    \/ ~HasSeparator(r)
    \/ FirstSeparator(r) + 3 = Len(r)

\* C15: a chunk response that is empty, lacks the separator, or has nothing
\* after its separator comes back as an empty chunk; handling an empty
\* chunk changes neither position, the buffer, the file nor total_size; and
\* the next call and request are at the same offset.
C15_NoBodyIsEmptyChunkRetried ==
    /\ [](results # << >> /\ NoBodyResponse(last_raw) => Last(results) = << >>)
    /\ [][pc = "dc_return" /\ NoBodyResponse(response) =>
            chunk' = << >>
            /\ UNCHANGED << position, all_data, file, total_size >>]_vars
    /\ [][pc = "main_check" /\ chunk = << >> =>
            pc' = "main_loop"
            /\ UNCHANGED << position, all_data, file, total_size >>]_vars
    /\ [][pc = "main_loop" /\ results # << >> /\ Last(results) = << >> =>
            pc' = "dc_range" /\ start_position' = Last(calls)
            /\ calls' = Append(calls, Last(calls))
            /\ UNCHANGED << position, all_data, file, total_size >>]_vars
    /\ [](Len(requests) >= 2 /\ Len(results) >= Len(requests) - 1
           /\ results[Len(requests) - 1] = << >>
           => requests[Len(requests)] = requests[Len(requests) - 1])

\* C15 witness: a second request at offset 0 after a response that had
\* header bytes but no separator.
C15_Witness ==
    /\ pc = "dc_read"
    /\ requests = << << 0, chunk_size - 1 >>, << 0, chunk_size - 1 >> >>
    /\ last_raw # << >>
    /\ ~HasSeparator(last_raw)
    /\ results = << << >> >>
    /\ position = 0 /\ all_data = << >> /\ file = << >>

\* the value of a content-length line: all that follows the field name
FieldValue(line) == Trim(Drop(line, Len(LENGTH_PREFIX)))

\* C16: the parse step takes the first line, in order, that starts with
\* the field name whatever its case; the trimmed value of that line is the
\* discovered size, and when there is no such line or its value is no
\* non-negative integer the run fails with the missing-length error, later
\* lines notwithstanding.
C16_FirstLengthLineDecides ==
    [][pc = "gts_parse" =>
        LET ls == Lines(response)
            k == FirstLengthLine(ls)
            v == IF k = 0 THEN -1 ELSE ParseUsize(FieldValue(ls[k]))
        IN IF v = -1
           THEN pc' = "Failed" /\ error' = "missing_length"
                /\ total_size' = total_size
           ELSE pc' = "main_alloc" /\ total_size' = v]_vars

\* s without its last element
Front(s) == SubSeq(s, 1, Len(s) - 1)

\* C17: after a failed write to the output file the run is Failed with
\* that error and nothing further can happen: position and the buffer
\* stand at the chunks accepted before, the failing chunk is the last
\* result and no call follows it, no digest is reported, and the file is
\* the earlier chunks followed by a proper prefix of the failing one.
C17_WriteFailureAborts ==
    \A i \in 1..Len(io_errors) : io_errors[i] = "write" =>
        /\ pc = "Failed" /\ error = "write" /\ Len(io_errors) = 1
        /\ ~ENABLED Next
        /\ ~file_open
        /\ ~hash_reported /\ digest_input = << >> /\ ~warned
        /\ Accepted # << >> /\ Last(results) = chunk /\ chunk # << >>
        /\ Len(calls) = Len(results) /\ Len(requests) = Len(calls)
        /\ all_data = Flatten(Front(Accepted))
        /\ position = Len(all_data) /\ position = Last(calls)
        /\ Len(file) < Len(all_data) + Len(chunk)
        /\ file = all_data \o Take(chunk, Len(file) - Len(all_data))

\* C17 witness: the write of the second accepted chunk failed after one
\* of its bytes.
C17_Witness ==
    /\ pc = "Failed"
    /\ error = "write"
    /\ Len(Accepted) = 2
    /\ Len(file) = Len(Accepted[1]) + 1
    /\ all_data = Accepted[1]
    /\ Len(Accepted[2]) >= 2

\* C18: if the chunk fetcher returns a non-empty body again and again
\* whenever it is asked again and again, a run that is in Fetching ends in
\* Done unless an I/O error ends it; and as long as no body has come back
\* the run is in Fetching, never in Reporting or Done, and always has a
\* next step: no bound on the retries ends it.
C18_DoneUnderFairFetches ==
    /\ SF_vars(NonEmptyFetch)
          => (OrchState = "Fetching"
                ~> (pc = "Done" \/ error \in TransportKinds \cup {"write"}))
    /\ [](/\ OrchState \notin {"Init", "Discovering"}
          /\ error = "none"
          /\ total_size > 0 /\ position = 0 /\ chunk = << >>
          => OrchState = "Fetching" /\ ENABLED NextLive)

\* C18 without the assumption on the peer: the run ends in Done or in an
\* error.  (It need not: the retry loop can go on for ever.)
C18_DoneWithoutFairness ==
    OrchState = "Fetching"
        ~> (pc = "Done" \/ error \in TransportKinds \cup {"write"})

\* C18 witness: the run went through Fetching and ended in Done with the
\* three bytes of the resource fetched.
C18_Witness ==
    /\ pc = "Done"
    /\ total_size = 3
    /\ position >= total_size
    /\ hash_reported

\* C19: Reporting is entered only from the loop condition and only with
\* position >= total_size; wherever the size comparison or the digest
\* computation runs, the accumulated length equals position and is at least
\* total_size; so a mismatch warning always stands for an accumulated length
\* strictly greater than total_size.
C19_ReportingOnlyWhenComplete ==
    /\ [][OrchState # "Reporting" /\ OrchState' = "Reporting"
            => /\ pc = "main_loop"
               /\ position >= total_size
               /\ UNCHANGED << position, total_size, all_data >>]_vars
    /\ [](OrchState = "Reporting"
            => Len(all_data) = position /\ Len(all_data) >= total_size)
    /\ [](warned => Len(all_data) > total_size)

\* C19 witness: the digest computation runs after the size comparison
\* printed the warning, with more bytes accumulated than a non-zero
\* total_size.
C19_Witness ==
    /\ pc = "main_hash"
    /\ warned
    /\ total_size > 0
    /\ Len(all_data) > total_size
    /\ position = Len(all_data)

\* get_total_size returned an Err to line 11: no chunk was ever requested
DiscoveryFailed ==
    /\ pc = "Failed"
    /\ calls = << >>
    /\ error \in TransportKinds \cup {"missing_length"}

\* main has not reached File::create
BeforeCreate ==
    \/ pc \in {"main", "gts_connect", "gts_send", "gts_read", "gts_parse",
                "main_alloc", "main_create"}
    \/ DiscoveryFailed

\* the output path as the run found it: absent, or the old file untouched
\* and not open
DiskUntouched ==
    /\ ~file_open
    /\ file = IF file_exists THEN OldFile ELSE << >>

\* C20: the output file is created or truncated only after size discovery
\* has succeeded: up to File::create, and in every run that failed in
\* discovery (a transport failure, or a content-length that is missing or
\* does not parse), the output was never opened and a file that was there
\* before is as it was; the step that opens it is taken at line 15 only,
\* which is reached only after the discovery response yielded a length.
C20_CreateAfterDiscovery ==
    /\ [](BeforeCreate => DiskUntouched)
    /\ [][file_open' /\ ~file_open
            => pc = "main_create" /\ error = "none" /\ disc_requests = 1]_vars
    /\ [][disk' # disk /\ ~file_open => pc = "main_create"]_vars
    /\ [][pc' = "main_create" => pc = "main_alloc"]_vars
    /\ [][pc' = "main_alloc"
            => pc = "gts_parse" /\ content_length(response) # -1]_vars

\* C20 witness: discovery failed on a response without a usable
\* content-length, and the file that was there before is unchanged.
C20_Witness ==
    /\ DiscoveryFailed
    /\ error = "missing_length"
    /\ file_exists
    /\ file = OldFile
    /\ ~file_open
===========================================================================
